---- MODULE Spec2Model ----
(***************************************************************************)
(* Pharmyrus patent intelligence service.                                  *)
(*                                                                         *)
(*  SpecCrawler : one call of WIPOCrawler.fetch_patent (wipo_crawler.py),  *)
(*                its recursion frames, pages and exception flow.          *)
(*  Spec        : CrawlerPool (crawler_pool.py) with its cache, driven by  *)
(*                concurrent callers: get_wipo_patent (api_service.py)     *)
(*                and fetch_multiple.                                      *)
(*                                                                         *)
(* Python values: a dict is a function whose DOMAIN is its key set, a list *)
(* is a sequence, None is the string "None".                               *)
(***************************************************************************)
EXTENDS Integers, Sequences, FiniteSets, TLC

VARIABLES
    \* ---- WIPOCrawler.fetch_patent, one top-level call ----
    max_retries,   \* self.max_retries
    wo_number,     \* argument of the call
    retry_count,   \* retry_count of the innermost frame
    pc,            \* position of the innermost frame
    page,          \* page[k]: local variable `page` of the frame with retry_count = k-1
    exc,           \* exception being handled or propagating
    data,          \* value about to be returned by the innermost frame
    result,        \* value received by the caller
    raised,        \* TRUE when an exception reached the caller
    loads,         \* number of page.goto() invocations
    outcome,       \* outcome[k]: where and how the try body of attempt k raised
    waits,         \* waits[k]: the wait_time slept before the k-th retry
    contexts,      \* browser contexts of self.browser that are open
    \* ---- CrawlerPool and its callers ----
    cache,         \* self.cache
    pool,          \* len(self.pool)
    task,          \* task[t]: one coroutine calling CrawlerPool.fetch_patent
    sem,           \* sem[m]: permits left in the semaphore of fetch_multiple call m
    \* ---- CrawlerPool.initialize / close ----
    sessions,      \* self.pool: the browser of each crawler in it, "open" or "closed"
    life,          \* the initialize() or close() call in progress and how the last one ended
    \* ---- WIPOCrawler._extract_worldwide_applications, one call ----
    dom,           \* the page: National Phase tab, table rows, country elements
    scan,          \* position of the call: stage and loop index
    worldwide,     \* local variable `worldwide`
    \* ---- PipelineService._layer2_discover_wos, one call ----
    searches,      \* searches[q]: the _fetch_search task of query q and what it returned
    wo_list,       \* the list returned, None before
    plan,          \* the queries the call built and the ones it executes
    \* ---- PipelineService.execute_full_pipeline, one call ----
    pipe,          \* position of the call, its locals and what it returned
    \* ---- BatchService.process_batch, one call ----
    batch          \* the process_one tasks, the semaphore and the report

crawlerVars == <<max_retries, wo_number, retry_count, pc, page, exc, data, result, raised, loads, outcome,
                 waits, contexts>>
poolVars    == <<cache, pool, task, sem>>
lifeVars    == <<sessions, life>>
tableVars   == <<dom, scan, worldwide>>
discVars    == <<searches, wo_list, plan>>
restVars    == <<lifeVars, tableVars, discVars, pipe, batch>>    \* all but crawlerVars and poolVars
offLife     == <<tableVars, discVars, pipe, batch>>              \* all but crawlerVars, poolVars and lifeVars
offTable    == <<lifeVars, discVars, pipe, batch>>               \* all but crawlerVars, poolVars and tableVars
offDisc     == <<lifeVars, tableVars, pipe, batch>>              \* all but crawlerVars, poolVars and discVars
offPipe     == <<lifeVars, tableVars, discVars, batch>>          \* all but crawlerVars, poolVars and pipe
offBatch    == <<lifeVars, tableVars, discVars, pipe>>           \* all but crawlerVars, poolVars and batch
vars        == <<max_retries, wo_number, retry_count, pc, page, exc, data, result, raised, loads, outcome,
                 waits, contexts,
                 cache, pool, task, sem, sessions, life, dom, scan, worldwide,
                 searches, wo_list, plan, pipe, batch>>

-----------------------------------------------------------------------------
(* Bounds *)

MaxRetriesBound == 3     \* max_retries ranges over 0..MaxRetriesBound
NumTasks        == 2     \* coroutines calling into the pool
NumCalls        == 1     \* fetch_multiple calls that may be open at once
PoolSize        == 1     \* pool_size given to CrawlerPool()

MaxSessions     == 6     \* crawlers self.pool may come to hold
MaxRows         == 2     \* data rows of the National Phase table
MaxElems        == 1     \* elements matching '.country-code, td.country'
NumQueries      == 2     \* search queries of one discovery
MaxItems        == 1     \* organic results in one search response
MaxDevCodes     == 6     \* development codes in pubchem_data["dev_codes"]
MaxMolecules    == 4     \* molecules of one batch
MaxConcurrent   == 2     \* max_concurrent given to BatchService()

\* max_retries of the crawlers the pool creates.
PoolMaxRetries  == 3

\* crawler_pool = CrawlerPool(pool_size=3), the pool of the service.
ApiPoolSize     == 3

-----------------------------------------------------------------------------
(* Python values *)

None == "None"

Truthy(s) == s # None /\ s # ""

Ids == {"WO2018162793", "WO2011051540"}

-----------------------------------------------------------------------------
(* Python str: a string is handled by Len, SubSeq and \o; a character is a
   string of length 1 *)

UpperAlphabet == "ABCDEFGHIJKLMNOPQRSTUVWXYZ"
LowerAlphabet == "abcdefghijklmnopqrstuvwxyz"
DigitChars    == {"0", "1", "2", "3", "4", "5", "6", "7", "8", "9"}

CharAt(s, i) == SubSeq(s, i, i)
Chars(s)     == { CharAt(s, i) : i \in 1..Len(s) }
From(s, i)   == SubSeq(s, i, Len(s))

IsUpper(c) == c \in Chars(UpperAlphabet)
IsLower(c) == c \in Chars(LowerAlphabet)
IsAlpha(c) == IsUpper(c) \/ IsLower(c)
IsDigit(c) == c \in DigitChars
IsSpace(c) == c = " "

\* s[:n]
Prefix(s, n) == SubSeq(s, 1, IF n < Len(s) THEN n ELSE Len(s))

LowerChar(c) ==
    IF IsUpper(c)
    THEN CharAt(LowerAlphabet, CHOOSE i \in 1..Len(UpperAlphabet) : CharAt(UpperAlphabet, i) = c)
    ELSE c

\* str.lower()
RECURSIVE Lower(_)
Lower(s) == IF s = "" THEN "" ELSE LowerChar(CharAt(s, 1)) \o Lower(Tail(s))

\* str.strip()
RECURSIVE LStrip(_)
LStrip(s) == IF s # "" /\ IsSpace(CharAt(s, 1)) THEN LStrip(Tail(s)) ELSE s
RECURSIVE RStrip(_)
RStrip(s) == IF s # "" /\ IsSpace(CharAt(s, Len(s))) THEN RStrip(SubSeq(s, 1, Len(s) - 1)) ELSE s
Strip(s) == RStrip(LStrip(s))

\* sub in s
Contains(s, sub) == \E i \in 1..(Len(s) - Len(sub) + 1) : SubSeq(s, i, i + Len(sub) - 1) = sub

\* Order of the characters identifiers are made of, as their code points.
CharOrder == "0123456789ABCDEFGHIJKLMNOPQRSTUVWXYZ"
CharRank(c) == CHOOSE i \in 1..Len(CharOrder) : CharAt(CharOrder, i) = c

\* a < b on str
RECURSIVE StrLess(_, _)
StrLess(a, b) ==
    IF b = "" THEN FALSE
    ELSE IF a = "" THEN TRUE
    ELSE IF CharAt(a, 1) = CharAt(b, 1) THEN StrLess(Tail(a), Tail(b))
    ELSE CharRank(CharAt(a, 1)) < CharRank(CharAt(b, 1))

\* sorted(list(S)) for a set of str
RECURSIVE SortedList(_)
SortedList(S) ==
    IF S = {} THEN <<>>
    ELSE LET m == CHOOSE x \in S : \A y \in S : x = y \/ StrLess(x, y)
         IN  <<m>> \o SortedList(S \ {m})

\* str.replace(old, ''): the occurrences found scanning left to right.
RECURSIVE Remove(_, _)
Remove(s, old) ==
    IF Len(s) < Len(old) THEN s
    ELSE IF Prefix(s, Len(old)) = old THEN Remove(From(s, Len(old) + 1), old)
    ELSE CharAt(s, 1) \o Remove(Tail(s), old)

\* Exceptions: the class and str(e).
PlaywrightTimeout == [kind |-> "PlaywrightTimeout", msg |-> "Timeout 60000ms exceeded."]
EmptyMessageError == [kind |-> "TimeoutError", msg |-> ""]
EnvErrors         == {PlaywrightTimeout, EmptyMessageError}
NoExc             == [kind |-> "none", msg |-> ""]

ExceptTimeoutOnly(e) == e.kind = "PlaywrightTimeout"

\* except Exception: every exception class raised in the try body derives
\* from Exception.
ExceptException(e) == e.kind \in {"Exception", "PlaywrightTimeout", "TimeoutError"}

-----------------------------------------------------------------------------
(* Records built by WIPOCrawler *)

\* One national application: an entry of worldwide_applications[year].
App(fd, cc, num, st, cat) ==
    [filing_date |-> fd, country_code |-> cc, application_number |-> num,
     document_id |-> "patent/" \o cc \o num \o "/en",
     legal_status |-> st, legal_status_cat |-> cat]

EmptyDict == <<>>

\* Values _extract_worldwide_applications hands back to fetch_patent: no
\* National Phase tab ({}), a table with rows, and a bucket a failing row
\* left without entries.
WorldwideSamples ==
    { EmptyDict,
      ("2020" :> <<App("2020-01-01", "BR", "BR1020200001", "Granted", "active")>>),
      ("2020" :> <<App("2020-01-01", "BR", "BR1020200001", "", "unknown")>>)
         @@ ("2021" :> <<App("2021-05-05", "US", "US12345", "Withdrawn", "not_active")>>),
      ("Unknown" :> <<>>) }

\* Orders the country codes the samples use, for sorted().
CountryOrder == <<"BR", "US">>

RECURSIVE SumLen(_, _)
SumLen(w, keys) ==
    IF keys = {} THEN 0
    ELSE LET k == CHOOSE x \in keys : TRUE
         IN  Len(w[k]) + SumLen(w, keys \ {k})

\* The (year, index) positions of the entries of a worldwide dict.
Entries(w) == UNION { { <<y, i>> : i \in 1..Len(w[y]) } : y \in DOMAIN w }

\* all_countries of fetch_patent.
AllCountries(w) == { w[e[1]][e[2]].country_code : e \in Entries(w) }

Sorted(S) == SelectSeq(CountryOrder, LAMBDA c : c \in S)

\* _extract_br_patents: the number of BR entries.
ExtractBrPatents(w) ==
    Cardinality({ e \in Entries(w) : w[e[1]][e[2]].country_code = "BR" })

\* wo_clean = wo_number.replace('WO', '').replace(' ', '').replace('/', '')
WoClean(wo) == Remove(Remove(Remove(wo, "WO"), " "), "/")

\* The identifier the detail page is asked for: WO{wo_clean}.
Normalize(wo) == "WO" \o WoClean(wo)

\* The url of fetch_patent.
Link(wo) == "https://patentscope.wipo.int/search/en/detail.jsf?docId=" \o Normalize(wo)

\* What the selectors of _extract_basic_data can yield on a page.
BasicFields ==
    [titulo : {None, "", "Title of the invention"},
     resumo : {None, "Abstract of the invention"},
     titular : {None, "Applicant"},
     deposito : {None, "2019-06-01"},
     publicacao : {None, "2019-12-05"},
     prioridade : {None, "2018-06-01"}]

\* The dict _extract_basic_data returns.
ExtractBasicData(f, wo) ==
    [fonte |-> "WIPO", pais |-> "WO", publicacao |-> wo, pedido |-> None,
     titulo |-> f.titulo, titular |-> f.titular,
     datas |-> [deposito |-> f.deposito, publicacao |-> f.publicacao,
                prioridade |-> f.prioridade],
     inventores |-> <<>>, cpc_ipc |-> <<>>, resumo |-> f.resumo,
     paises_familia |-> <<>>,
     documentos |-> [pdf_link |-> None, patentscope_link |-> Link(wo)],
     worldwide_applications |-> EmptyDict,
     debug |-> [extraction_method |-> "playwright"]]

\* Lines 467-487 of fetch_patent: the record completed with the worldwide data.
CompleteData(basic, w) ==
    [basic EXCEPT !.worldwide_applications = w,
                  !.paises_familia = Sorted({c \in AllCountries(w) : Truthy(c)}),
                  !.debug = [extraction_method |-> "playwright",
                             total_worldwide_apps |-> SumLen(w, DOMAIN w),
                             br_patents_found |-> ExtractBrPatents(w),
                             countries_found |-> Cardinality(AllCountries(w))]]

\* Validation of fetch_patent.
HasBasicData(d) == Truthy(d.titulo) \/ Truthy(d.resumo) \/ Truthy(d.titular)
HasWorldwide(d) == Cardinality(DOMAIN d.worldwide_applications) > 0
RequiresWorldwide(d) == HasWorldwide(d)
Accepted(d)     == HasBasicData(d) \/ HasWorldwide(d)

NoDataError == [kind |-> "Exception",
                msg |-> "Nenhum dado essencial extraido (nem basico nem worldwide)"]

StatusError(r) == [kind |-> "Exception", msg |-> "Status HTTP: " \o r]

\* What page.goto can answer: no response object, or a status.
Responses == {"No response", "200", "404"}

ErrorRecordCountingAttempts(wo, e, rc) ==
    [fonte |-> "WIPO", pais |-> "WO", publicacao |-> wo,
     erro |-> e.msg, status |-> "FALHA",
     documentos |-> [patentscope_link |-> Link(wo)],
     worldwide_applications |-> EmptyDict,
     debug |-> [error |-> e.msg, retry_count |-> rc + 1]]

\* The terminal record of fetch_patent.
ErrorRecord(wo, e, rc) ==
    [fonte |-> "WIPO", pais |-> "WO", publicacao |-> wo,
     erro |-> e.msg, status |-> "FALHA",
     documentos |-> [patentscope_link |-> Link(wo)],
     worldwide_applications |-> EmptyDict,
     debug |-> [error |-> e.msg, retry_count |-> rc]]

NoData == [status |-> "none"]

\* dict.get(key) of a returned record.
Get(d, key) == IF key \in DOMAIN d THEN d[key] ELSE None

-----------------------------------------------------------------------------
(* WIPOCrawler.fetch_patent *)

\* try: await page.close() / except: pass -- the exception that leaves
\* the statement when page.close() raised e (NoExc: it did not raise).
TryClose(e) == NoExc

LeftOpen(p) == p

\* `if page:` then close: the page afterwards. A close that raises does so
\* because its target is already gone.
Closed(p) == IF p = "open" THEN "closed" ELSE p

CloseOutcomes(p) == IF p = "open" THEN {NoExc} \cup EnvErrors ELSE {NoExc}

ShouldRetryOnceMore(rc, n) == rc < n

\* if retry_count < self.max_retries - 1
ShouldRetry(rc, n) == rc < n - 1

Pending == [at |-> "none", kind |-> "none"]

\* An exception raised at stage `at` of the try body of the innermost frame.
Raise(at, e) ==
    /\ exc' = e
    /\ pc' = IF ExceptException(e) THEN "except" ELSE "finally"
    /\ outcome' = [outcome EXCEPT ![retry_count + 1] = [at |-> at, kind |-> e.kind]]

\* The attempts whose try body raised.
Failures == {k \in 1..Len(outcome) : outcome[k].at # "none"}

\* random.uniform(a, b) is a + (b - a) * random.random() with random() in
\* [0.0, 1.0): a value from `from` up to, and excluding, `below`.
Uniform(a, b) == [from |-> a, below |-> b]

BackoffConstant(rc) == [base |-> 1, jitter |-> Uniform(0, 1)]

\* wait_time = (2 ** retry_count) + random.uniform(0, 1)
Backoff(rc) == [base |-> 2 ^ rc, jitter |-> Uniform(0, 1)]

\* context = await self.browser.new_context(...); nothing closes a context.
NewContext(n) == n + 1

InitCrawler ==
    /\ max_retries \in 0..MaxRetriesBound
    /\ wo_number = None
    /\ retry_count = 0
    /\ pc = "idle"
    /\ page = <<>>
    /\ exc = NoExc
    /\ data = NoData
    /\ result = NoData
    /\ raised = FALSE
    /\ loads = 0
    /\ outcome = <<>>
    /\ waits = <<>>
    /\ contexts = 0

\* The caller invokes fetch_patent(wo): page = None, the try body starts.
FetchPatent(wo) ==
    /\ pc = "idle"
    /\ wo_number' = wo
    /\ retry_count' = 0
    /\ page' = <<None>>
    /\ outcome' = <<Pending>>
    /\ pc' = "create"
    /\ UNCHANGED <<max_retries, exc, data, result, raised, loads, waits, contexts, poolVars, restVars>>

\* page = await self._create_stealth_page(): a new context of the browser and
\* a page in it. A raise is taken to come from browser.new_context(), before
\* any context exists; one from add_init_script or new_page would leave one
\* more context open.
CreateStealthPage ==
    /\ pc = "create"
    /\ \/ /\ page' = [page EXCEPT ![retry_count + 1] = "open"]
          /\ contexts' = NewContext(contexts)
          /\ pc' = "goto"
          /\ UNCHANGED <<exc, outcome>>
       \/ \E e \in EnvErrors : Raise("create", e) /\ page' = page /\ contexts' = contexts
    /\ UNCHANGED <<max_retries, wo_number, retry_count, data, result, raised, loads, waits, poolVars, restVars>>

\* response = await page.goto(url, ...) and the status check.
Goto ==
    /\ pc = "goto"
    /\ loads' = loads + 1
    /\ \/ \E r \in Responses :
             IF r # "200" THEN Raise("goto", StatusError(r))
                          ELSE pc' = "settle" /\ UNCHANGED <<exc, outcome>>
       \/ \E e \in EnvErrors : Raise("goto", e)
    /\ UNCHANGED <<max_retries, wo_number, retry_count, page, data, result, raised, waits, contexts, poolVars, restVars>>

\* _wait_for_load, the settle delays and the two page.evaluate scrolls.
Settle ==
    /\ pc = "settle"
    /\ \/ pc' = "extract" /\ UNCHANGED <<exc, outcome>>
       \/ \E e \in EnvErrors : Raise("settle", e)
    /\ UNCHANGED <<max_retries, wo_number, retry_count, page, data, result, raised, loads, waits, contexts, poolVars, restVars>>

\* Extraction of the basic and worldwide data, then the validation: the
\* frame returns data or raises "Nenhum dado essencial".
Extract ==
    /\ pc = "extract"
    /\ \E f \in BasicFields, w \in WorldwideSamples :
         LET d == CompleteData(ExtractBasicData(f, wo_number), w)
         IN  /\ data' = d
             /\ IF Accepted(d) THEN pc' = "finally" /\ UNCHANGED <<exc, outcome>>
                               ELSE Raise("extract", NoDataError)
    /\ UNCHANGED <<max_retries, wo_number, retry_count, page, result, raised, loads, waits, contexts, poolVars, restVars>>

\* except Exception as e: sleep wait_time, close the page and recurse, or
\* build the terminal record. page.close() closes the page, not its context.
ExceptHandler ==
    /\ pc = "except"
    /\ IF ShouldRetry(retry_count, max_retries)
       THEN \E ce \in CloseOutcomes(page[retry_count + 1]) :
              IF TryClose(ce) = NoExc
              THEN /\ waits' = Append(waits, Backoff(retry_count))
                   /\ page' = Append([page EXCEPT ![retry_count + 1] = Closed(@)], None)
                   /\ outcome' = Append(outcome, Pending)
                   /\ retry_count' = retry_count + 1
                   /\ pc' = "create"
                   /\ exc' = NoExc
                   /\ data' = NoData
              ELSE /\ waits' = Append(waits, Backoff(retry_count))
                   /\ page' = [page EXCEPT ![retry_count + 1] = Closed(@)]
                   /\ exc' = TryClose(ce)
                   /\ pc' = "finally"
                   /\ UNCHANGED <<retry_count, data, outcome>>
       ELSE /\ data' = ErrorRecord(wo_number, exc, retry_count)
            /\ pc' = "finally"
            /\ exc' = NoExc
            /\ UNCHANGED <<page, retry_count, outcome, waits>>
    /\ UNCHANGED <<max_retries, wo_number, result, raised, loads, contexts, poolVars, restVars>>

\* finally: close the frame's page; the frame then hands its value (or the
\* propagating exception) to its caller, the enclosing frame or the client.
Finally ==
    /\ pc = "finally"
    /\ \E ce \in CloseOutcomes(page[retry_count + 1]) :
         LET out == IF TryClose(ce) # NoExc THEN TryClose(ce) ELSE exc
         IN  /\ page' = [page EXCEPT ![retry_count + 1] = Closed(@)]
             /\ exc' = out
             /\ IF retry_count > 0
                THEN /\ retry_count' = retry_count - 1
                     /\ pc' = "finally"
                     /\ UNCHANGED <<result, raised>>
                ELSE /\ pc' = "done"
                     /\ retry_count' = retry_count
                     /\ raised' = (out # NoExc)
                     /\ result' = IF out # NoExc THEN NoData ELSE data
    /\ UNCHANGED <<max_retries, wo_number, data, loads, outcome, waits, contexts, poolVars, restVars>>

NextCrawler ==
    \/ \E wo \in Ids : FetchPatent(wo)
    \/ CreateStealthPage
    \/ Goto
    \/ Settle
    \/ Extract
    \/ ExceptHandler
    \/ Finally

-----------------------------------------------------------------------------
(* CrawlerPool, get_wipo_patent and fetch_multiple *)

Tasks == 1..NumTasks
Calls == 1..NumCalls

\* The page served for every identifier of this model, and what
\* WIPOCrawler.fetch_patent can hand back to the pool for it: the record
\* extracted from that page, or the terminal record of a failure.
PoolFields ==
    [titulo |-> "Title of the invention", resumo |-> None, titular |-> "Applicant",
     deposito |-> "2019-06-01", publicacao |-> None, prioridade |-> None]

PoolWorldwide ==
    ("2020" :> <<App("2020-01-01", "BR", "BR1020200001", "", "unknown")>>)
       @@ ("2021" :> <<App("2021-05-05", "US", "US12345", "Withdrawn", "not_active")>>)

CrawlerReturnsFor(wo) ==
    { CompleteData(ExtractBasicData(PoolFields, wo), PoolWorldwide) }
       \cup { ErrorRecord(wo, e, PoolMaxRetries - 1) : e \in EnvErrors }

\* The same for the identifiers in canonical spelling, computed once.
CrawlerReturnsOf == [wo \in Ids |-> CrawlerReturnsFor(wo)]

CrawlerReturns(wo) == IF wo \in Ids THEN CrawlerReturnsOf[wo] ELSE CrawlerReturnsFor(wo)

\* The place of a fetch_one that raised, in the results of gather.
ExceptionResult == [status |-> "exception"]

IsErrorRecord(d) == "erro" \in DOMAIN d

CacheNeverHit(wo) == FALSE

\* if wo_number in self.cache
CacheHit(wo) == wo \in DOMAIN cache

\* if not data.get('erro')
ShouldCache(d) == ~Truthy(Get(d, "erro"))

\* asyncio.Semaphore(self.pool_size)
SemaphoreInit == PoolSize

CanAcquireAtZero(m) == sem[m] >= 0

ReleaseNothing(s) == s

\* The exit of `async with semaphore`, on return and on exception alike:
\* Semaphore.release() gives the permit back.
Release(s) == s + 1

\* Semaphore.acquire() goes through without waiting.
CanAcquire(m) == sem[m] > 0

\* The country filter of get_wipo_patent.
FilterApps(w, country) ==
    LET keep(y) == SelectSeq(w[y], LAMBDA a : a.country_code = country)
    IN  [y \in {z \in DOMAIN w : keep(z) # <<>>} |-> keep(y)]

ApplyCountryFilter(d, country) ==
    IF ~Truthy(country) THEN d
    ELSE [k \in DOMAIN d \cup {"country_filter_applied"} |->
            IF k = "worldwide_applications"
            THEN FilterApps(Get(d, "worldwide_applications"), country)
            ELSE IF k = "country_filter_applied" THEN country ELSE d[k]]

Countries == {None, "BR"}

IdleTask ==
    [pc |-> "idle", call |-> 0, wo |-> None, country |-> None, data |-> NoData,
     calls |-> 0, temp |-> FALSE, alias |-> FALSE]

InFlight == {t \in Tasks : task[t].pc = "fetching"}

InitPool ==
    /\ cache = EmptyDict
    /\ pool = PoolSize
    /\ task = [t \in Tasks |-> IdleTask]
    /\ sem = [m \in Calls |-> 0]

\* A result held by a fetch_one task that is the very dict stored under wo:
\* it changes with an assignment made in place (same), and stops being the
\* stored dict when a new one is stored.
Realias(tk, wo, d, same) ==
    IF tk.pc = "done" /\ tk.wo = wo /\ tk.alias
    THEN IF same THEN [tk EXCEPT !.data = d] ELSE [tk EXCEPT !.alias = FALSE]
    ELSE tk

\* The task after CrawlerPool.fetch_patent returned d to it, having invoked
\* WIPOCrawler.fetch_patent n times: get_wipo_patent answers its request,
\* fetch_one keeps the result for gather.
AfterReturn(tk, d, n, isStored) ==
    IF tk.call = 0 THEN IdleTask
    ELSE [tk EXCEPT !.pc = "done", !.data = d, !.calls = n, !.alias = isStored]

\* CrawlerPool.fetch_patent up to its first suspension, for task t with its
\* wo and country set in tk: a cache hit returns at once (get_wipo_patent
\* then filters the cached dict in place), a miss starts an extraction.
PoolFetchEnter(t, tk) ==
    IF CacheHit(tk.wo)
    THEN LET d == ApplyCountryFilter(cache[tk.wo], tk.country)
         IN  /\ cache' = [cache EXCEPT ![tk.wo] = d]
             /\ task' = [u \in Tasks |->
                           IF u = t THEN AfterReturn(tk, d, 0, TRUE)
                           ELSE Realias(task[u], tk.wo, d, TRUE)]
             /\ sem' = sem
    ELSE /\ task' = [task EXCEPT ![t] = [tk EXCEPT !.pc = "fetching", !.temp = (pool = 0)]]
         /\ sem' = IF tk.call # 0 THEN [sem EXCEPT ![tk.call] = @ - 1] ELSE sem
         /\ UNCHANGED cache

\* GET /api/v1/wipo/{wo_number}?country=...
GetWipoPatent(t, wo, country) ==
    /\ task[t].pc = "idle"
    /\ \A u \in Tasks : task[u].pc = "idle" => t <= u    \* the request takes the first free coroutine
    /\ PoolFetchEnter(t, [IdleTask EXCEPT !.wo = wo, !.country = country])
    /\ UNCHANGED <<pool, crawlerVars, restVars>>

\* fetch_multiple(wo_numbers): one fetch_one task per identifier, gathered.
FetchMultiple(m, wos) ==
    LET idle == {t \in Tasks : task[t].pc = "idle"}
        \* the i-th idle task runs fetch_one(wos[i])
        rank(t) == Cardinality({u \in idle : u <= t})
    IN  /\ \A t \in Tasks : task[t].call # m
        /\ \A n \in Calls : n < m => \E t \in Tasks : task[t].call = n   \* m names the new call
        /\ Len(wos) <= Cardinality(idle)
        /\ task' = [t \in Tasks |->
                      IF t \in idle /\ rank(t) <= Len(wos)
                      THEN [IdleTask EXCEPT !.pc = "queued", !.call = m, !.wo = wos[rank(t)]]
                      ELSE task[t]]
        /\ sem' = [sem EXCEPT ![m] = SemaphoreInit]
        /\ UNCHANGED <<cache, pool, crawlerVars, restVars>>

\* fetch_one: async with semaphore: return await self.fetch_patent(wo)
FetchOne(t) ==
    /\ task[t].pc = "queued"
    /\ CanAcquire(task[t].call)
    /\ PoolFetchEnter(t, task[t])
    /\ UNCHANGED <<pool, crawlerVars, restVars>>

\* crawler.fetch_patent(wo) comes back to CrawlerPool.fetch_patent, which
\* caches and returns; get_wipo_patent then filters, fetch_one releases.
CrawlerReturn(t) ==
    /\ task[t].pc = "fetching"
    /\ LET tk == task[t]
       IN  \E r \in CrawlerReturns(tk.wo) :
             LET d == ApplyCountryFilter(r, tk.country)
             IN  /\ cache' = IF ShouldCache(r)
                             THEN [k \in DOMAIN cache \cup {tk.wo} |->
                                     IF k = tk.wo THEN d ELSE cache[k]]
                             ELSE cache
                 /\ task' = [u \in Tasks |->
                               IF u = t THEN AfterReturn(tk, d, 1, ShouldCache(r))
                               ELSE IF ShouldCache(r) THEN Realias(task[u], tk.wo, d, FALSE)
                                    ELSE task[u]]
                 /\ sem' = IF tk.call # 0 THEN [sem EXCEPT ![tk.call] = Release(@)] ELSE sem
    /\ UNCHANGED <<pool, crawlerVars, restVars>>

\* With an empty pool the crawler is a temporary one (async with): its
\* initialize() or close() raises, and so does CrawlerPool.fetch_patent.
TempCrawlerRaises(t) ==
    /\ task[t].pc = "fetching"
    /\ task[t].temp
    /\ task' = [task EXCEPT ![t] = AfterReturn(@, ExceptionResult, 0, FALSE)]
    /\ sem' = IF task[t].call # 0 THEN [sem EXCEPT ![task[t].call] = Release(@)] ELSE sem
    /\ UNCHANGED <<cache, pool, crawlerVars, restVars>>

\* valid_results of fetch_multiple call m, in the order of wo_numbers.
ValidResults(m) ==
    LET ts == SelectSeq([i \in 1..NumTasks |-> i],
                        LAMBDA t : task[t].call = m /\ task[t].data # ExceptionResult)
    IN  [i \in 1..Len(ts) |-> task[ts[i]].data]

\* asyncio.gather has every result: fetch_multiple returns valid_results.
GatherReturn(m) ==
    /\ \E t \in Tasks : task[t].call = m
    /\ \A t \in Tasks : task[t].call = m => task[t].pc = "done"
    /\ task' = [t \in Tasks |-> IF task[t].call = m THEN IdleTask ELSE task[t]]
    /\ sem' = [sem EXCEPT ![m] = 0]
    /\ UNCHANGED <<cache, pool, crawlerVars, restVars>>

IdSeqs == UNION { [1..n -> Ids] : n \in 1..NumTasks }

NextPool ==
    \/ \E t \in Tasks, wo \in Ids, c \in Countries : GetWipoPatent(t, wo, c)
    \/ \E m \in Calls, wos \in IdSeqs : FetchMultiple(m, wos)
    \/ \E t \in Tasks : FetchOne(t)
    \/ \E t \in Tasks : CrawlerReturn(t)
    \/ \E m \in Calls : GatherReturn(m)

\* No crawler call of its own is observed while the pool is studied.
InitCrawlerIdle ==
    /\ max_retries = PoolMaxRetries
    /\ wo_number = None
    /\ retry_count = 0
    /\ pc = "idle"
    /\ page = <<>>
    /\ exc = NoExc
    /\ data = NoData
    /\ result = NoData
    /\ raised = FALSE
    /\ loads = 0
    /\ outcome = <<>>
    /\ waits = <<>>
    /\ contexts = 0

-----------------------------------------------------------------------------
(* One patent asked for under several spellings of its number *)

TheId == "WO2018162793"

\* An identifier written with a prefix and separators of the client's choice.
Written(id, prefix, sep1, sep2) ==
    prefix \o sep1 \o SubSeq(id, 3, 6) \o sep2 \o SubSeq(id, 7, 12)

VariantIds ==
    { Written(TheId, "WO", "", ""),
      Written(TheId, "WO", " ", "/"),
      Written(TheId, "WO", "", "/"),
      Written(TheId, "wo", "", ""),
      Written(TheId, "WO", "-", "-") }

NextVariants ==
    \/ \E t \in Tasks, wo \in VariantIds : GetWipoPatent(t, wo, None)
    \/ \E t \in Tasks : CrawlerReturn(t)

-----------------------------------------------------------------------------
(* CrawlerPool.initialize and CrawlerPool.close, as startup() and shutdown()
   and any other caller run them on the pool of the service *)

NoCall == [op |-> "none", i |-> 0, last |-> "none"]

\* How a call of initialize() or close() ended.
Ended(op, how) == [op |-> "none", i |-> 0, last |-> op \o " " \o how]

\* The pool startup() left behind: pool_size crawlers, their browsers open.
Started(n) == [i \in 1..n |-> "open"]

\* for crawler in self.pool: the loop of close() is over after the last one.
LastOfPool(i) == i = Len(sessions)

\* A caller invokes initialize(): nothing is reset, the loop starts.
PoolInitialize ==
    /\ life.op = "none"
    /\ Len(sessions) + ApiPoolSize <= MaxSessions
    /\ life' = [op |-> "initialize", i |-> 0, last |-> "none"]
    /\ UNCHANGED <<sessions, crawlerVars, poolVars, offLife>>

\* One turn of the loop of initialize(): WIPOCrawler(...), then
\* crawler.initialize() launches the browser and the crawler is appended, or
\* it raises and the exception leaves initialize() with self.pool as it is.
\* The turn that appends the last crawler returns.
CrawlerInitialize ==
    /\ life.op = "initialize"
    /\ \/ /\ sessions' = Append(sessions, "open")
          /\ life' = IF life.i + 1 = ApiPoolSize THEN Ended("initialize", "returned")
                                                ELSE [life EXCEPT !.i = @ + 1]
       \/ /\ sessions' = sessions
          /\ life' = Ended("initialize", "raised")
    /\ pool' = Len(sessions')
    /\ UNCHANGED <<cache, task, sem, crawlerVars, offLife>>

\* A caller invokes close(): with an empty self.pool the loop has no turn
\* and clear() ends the call.
PoolClose ==
    /\ life.op = "none"
    /\ life' = IF sessions = <<>> THEN Ended("close", "returned")
                                 ELSE [op |-> "close", i |-> 1, last |-> "none"]
    /\ UNCHANGED <<sessions, crawlerVars, poolVars, offLife>>

\* One turn of the loop of close(): crawler.close() closes the browser and
\* stops playwright; when either raises, the exception leaves close() with
\* the crawlers still in self.pool. After the last turn self.pool.clear().
CrawlerClose ==
    /\ life.op = "close"
    /\ \/ /\ sessions' = IF LastOfPool(life.i) THEN <<>>
                                                ELSE [sessions EXCEPT ![life.i] = "closed"]
          /\ life' = IF LastOfPool(life.i) THEN Ended("close", "returned")
                                           ELSE [life EXCEPT !.i = @ + 1]
       \/ /\ \E b \in {sessions[life.i], "closed"} :
                sessions' = [sessions EXCEPT ![life.i] = b]
          /\ life' = Ended("close", "raised")
    /\ pool' = Len(sessions')
    /\ UNCHANGED <<cache, task, sem, crawlerVars, offLife>>

\* Requests served while the pool goes through its life: which crawler
\* CrawlerPool.fetch_patent takes depends on self.pool alone. What comes back
\* is any of CrawlerReturns, whatever the state of the browser.
NextLifecycle ==
    \/ PoolInitialize
    \/ CrawlerInitialize
    \/ PoolClose
    \/ CrawlerClose
    \/ \E t \in Tasks : GetWipoPatent(t, "WO2018162793", None)
    \/ \E t \in Tasks : CrawlerReturn(t)
    \/ \E t \in Tasks : TempCrawlerRaises(t)

\* CrawlerPool(): self.pool = [], before startup() runs.
InitLifecycle ==
    /\ sessions = <<>>
    /\ life = NoCall
    /\ cache = EmptyDict
    /\ pool = 0
    /\ task = [t \in Tasks |-> IdleTask]
    /\ sem = [m \in Calls |-> 0]

\* The pool after a startup() that went through, with pool_size n.
InitStarted(n) ==
    /\ sessions = Started(n)
    /\ life = Ended("initialize", "returned")

-----------------------------------------------------------------------------
(* WIPOCrawler._extract_worldwide_applications *)

\* A table row: the inner_text() of its td cells, and the cell (0: none)
\* whose inner_text() raises.
TableRow(cells, broken) == [cells |-> cells, broken |-> broken]

RowSamples ==
    { TableRow(<<"2019-06-01", "BR", "BR1020190001", "Granted">>, 0),
      TableRow(<<"2021-05-05", " US ", "US12345", "Application withdrawn">>, 0),
      TableRow(<<"01.06.2019", "EP", "EP19000001">>, 0),
      TableRow(<<"", "JP", "JP2019-1", "Abandoned">>, 0),
      TableRow(<<"2019-06-01", "12", "X1", "">>, 0),
      TableRow(<<"2019-06-01", "EPO", "EP1", "">>, 0),
      TableRow(<<"2020-02-02", "", "X2", "">>, 0),
      TableRow(<<"2020-02-02", "CN">>, 0),
      TableRow(<<"2018-03-03", "KR", "KR1", "Pending">>, 4),
      TableRow(<<"2017-07-07", "AU", "AU2017001", "GRANTED, then withdrawn">>, 0) }

\* The inner_text() of elements matching '.country-code, td.country'.
ElemSamples == {"BR", " KR ", "B1", "Brazil"}

SeqsUpTo(S, n) == UNION { [1..k -> S] : k \in 0..n }

\* Pages: without the National Phase tab, or with it and any table.
Pages ==
    { [tab |-> FALSE, rows |-> <<>>, elems |-> <<>>] }
      \cup [tab : {TRUE}, rows : SeqsUpTo(RowSamples, MaxRows), elems : SeqsUpTo(ElemSamples, MaxElems)]

NoPage == [tab |-> FALSE, rows |-> <<>>, elems |-> <<>>]

\* year = filing_date[:4] if len(filing_date) >= 4 else "Unknown"
YearOf(filing_date) == IF Len(filing_date) >= 4 THEN Prefix(filing_date, 4) ELSE "Unknown"

\* if country_code and len(country_code) == 2
CountryAccepted(country_code) == country_code # "" /\ Len(country_code) = 2

\* if year not in worldwide: worldwide[year] = []
WithBucket(w, year) == IF year \in DOMAIN w THEN w ELSE w @@ (year :> <<>>)

LegalStatusCatWithdrawFirst(legal_status) ==
    IF Contains(Lower(legal_status), "withdraw") \/ Contains(Lower(legal_status), "abandon")
    THEN "not_active"
    ELSE IF Contains(Lower(legal_status), "grant") THEN "active"
    ELSE "unknown"

\* The classification of lines 337-340.
LegalStatusCat(legal_status) ==
    IF Contains(Lower(legal_status), "grant") THEN "active"
    ELSE IF Contains(Lower(legal_status), "withdraw") \/ Contains(Lower(legal_status), "abandon")
         THEN "not_active"
    ELSE "unknown"

\* One turn of `for row in rows[1:]`: worldwide after it. An exception in the
\* turn is caught by the turn and leaves what was done before it.
RowResult(w, row) ==
    LET cells == row.cells
    IN  IF Len(cells) < 3 \/ row.broken \in 1..3 THEN w
        ELSE LET filing_date  == Strip(cells[1])
                 country_code == Strip(cells[2])
                 app_number   == Strip(cells[3])
                 year         == YearOf(filing_date)
             IN  IF ~CountryAccepted(country_code) THEN w
                 ELSE IF Len(cells) > 3 /\ row.broken = 4 THEN WithBucket(w, year)
                 ELSE LET legal_status == IF Len(cells) > 3 THEN Strip(cells[4]) ELSE ""
                          cat == IF Len(cells) > 3 THEN LegalStatusCat(legal_status) ELSE "unknown"
                      IN  [WithBucket(w, year) EXCEPT
                             ![year] = Append(@, App(filing_date, country_code, app_number,
                                                     legal_status, cat))]

\* The entry the country sweep adds.
SweptApp(country) ==
    [filing_date |-> "", country_code |-> country, application_number |-> "",
     document_id |-> "", legal_status |-> "", legal_status_cat |-> "unknown"]

\* One turn of `for elem in country_elems`.
ElemResult(w, text) ==
    LET country == Strip(text)
    IN  IF ~CountryAccepted(country) THEN w
        ELSE LET w1 == WithBucket(w, "Unknown")
                 exists == \E i \in 1..Len(w1["Unknown"]) : w1["Unknown"][i].country_code = country
             IN  IF exists THEN w1
                 ELSE [w1 EXCEPT !["Unknown"] = Append(@, SweptApp(country))]

IdleTable ==
    /\ dom = NoPage
    /\ scan = [stage |-> "idle", i |-> 0]
    /\ worldwide = EmptyDict

\* worldwide = {} and the call starts on some page.
InitTable ==
    /\ dom \in Pages
    /\ scan = [stage |-> "tab", i |-> 0]
    /\ worldwide = EmptyDict

\* The tab is looked for and clicked; without it the call returns {}. A
\* table counts as found when it has a row after the header.
ClickTab ==
    /\ scan.stage = "tab"
    /\ scan' = IF ~dom.tab THEN [stage |-> "done", i |-> 0]
               ELSE IF Len(dom.rows) >= 1 THEN [stage |-> "rows", i |-> 1]
               ELSE [stage |-> "sweep", i |-> 1]
    /\ UNCHANGED <<dom, worldwide, crawlerVars, poolVars, offTable>>

ProcessRow ==
    /\ scan.stage = "rows"
    /\ worldwide' = RowResult(worldwide, dom.rows[scan.i])
    /\ scan' = IF scan.i = Len(dom.rows) THEN [stage |-> "sweep", i |-> 1]
                                         ELSE [scan EXCEPT !.i = @ + 1]
    /\ UNCHANGED <<dom, crawlerVars, poolVars, offTable>>

SweepCountry ==
    /\ scan.stage = "sweep"
    /\ scan.i <= Len(dom.elems)
    /\ worldwide' = ElemResult(worldwide, dom.elems[scan.i])
    /\ scan' = [scan EXCEPT !.i = @ + 1]
    /\ UNCHANGED <<dom, crawlerVars, poolVars, offTable>>

\* return worldwide
ReturnWorldwide ==
    /\ scan.stage = "sweep"
    /\ scan.i > Len(dom.elems)
    /\ scan' = [stage |-> "done", i |-> 0]
    /\ UNCHANGED <<dom, worldwide, crawlerVars, poolVars, offTable>>

NextTable == ClickTab \/ ProcessRow \/ SweepCountry \/ ReturnWorldwide

-----------------------------------------------------------------------------
(* PipelineService._layer2_discover_wos and _fetch_search *)

Queries == 1..NumQueries

\* \d{n} at position i of s
DigitsAt(s, i, n) == i + n - 1 <= Len(s) /\ \A k \in i..(i + n - 1) : IsDigit(CharAt(s, k))

\* One optional character of the class, at position i of s: where the
\* pattern goes on. The classes hold no digit, so a character of the class
\* is always taken.
SkipOne(s, i, class) == IF i <= Len(s) /\ CharAt(s, i) \in class THEN i + 1 ELSE i

\* re.compile(r'WO[\s-]?(\d{4})[\s/]?(\d{6})', re.I) tried at position i:
\* the groups and the position after the match, or no match.
NoMatch == [ok |-> FALSE]
MatchAt(s, i) ==
    IF ~(i + 1 <= Len(s) /\ CharAt(s, i) \in {"W", "w"} /\ CharAt(s, i + 1) \in {"O", "o"})
    THEN NoMatch
    ELSE LET y == SkipOne(s, i + 2, {" ", "-"})
         IN  IF ~DigitsAt(s, y, 4) THEN NoMatch
             ELSE LET n == SkipOne(s, y + 4, {" ", "/"})
                  IN  IF ~DigitsAt(s, n, 6) THEN NoMatch
                      ELSE [ok |-> TRUE, year |-> SubSeq(s, y, y + 3),
                            num |-> SubSeq(s, n, n + 5), end |-> n + 6]

\* wo_pattern.findall(text) from position i on
RECURSIVE FindAll(_, _)
FindAll(s, i) ==
    IF i > Len(s) THEN <<>>
    ELSE LET m == MatchAt(s, i)
         IN  IF m.ok THEN <<[year |-> m.year, num |-> m.num]>> \o FindAll(s, m.end)
                     ELSE FindAll(s, i + 1)

WoNumberWithSlash(year, num) == "WO" \o year \o "/" \o num

\* wo_numbers.add(f"WO{year}{num}")
WoNumber(year, num) == "WO" \o year \o num

\* text = f"{title} {snippet} {link}"
ItemText(item) == item.title \o " " \o item.snippet \o " " \o item.link

ItemWos(item) ==
    LET matches == FindAll(ItemText(item), 1)
    IN  { WoNumber(matches[k].year, matches[k].num) : k \in 1..Len(matches) }

\* An organic result; `mentions` (a key the code does not read) names the
\* identifiers its text holds in a spelling the pattern covers: WO in any
\* case, at most one space or hyphen, the year, at most one space or slash,
\* the number.
Item(title, snippet, link, mentions) ==
    [title |-> title, snippet |-> snippet, link |-> link, mentions |-> mentions]

ItemSamples ==
    { Item("WO2018162793 - Crystalline compound", "", "", {"WO2018162793"}),
      Item("Patent family", "see " \o Written(TheId, "WO", " ", "/") \o " A1", "", {"WO2018162793"}),
      Item("", Written(TheId, "wo", "-", " "),
           "https://patents.google.com/patent/WO2011051540A1/en", {"WO2018162793", "WO2011051540"}),
      Item("No patent WO2018 here", "WO 123456", "", {}),
      Item("WO/2018/162793", "", "", {}) }

\* A response body: the dict resp.json() gives.
Bodies == [organic_results : SeqsUpTo(ItemSamples, MaxItems)]

\* How a query went: answered with 200, answered with another status,
\* or session.get raised (connection error, timeout).
Hows == {"ok", "status", "error"}

ParsedAnyway(how, body) == IF how = "error" THEN EmptyDict ELSE body

\* What _fetch_search returns.
FetchSearchResult(how, body) == IF how = "ok" THEN body ELSE EmptyDict

PendingSearch == [state |-> "pending", how |-> "none", result |-> EmptyDict]

\* result.get("organic_results", [])
OrganicResults(res) ==
    IF "organic_results" \in DOMAIN res THEN res.organic_results ELSE <<>>

\* The set wo_numbers the loop over results builds.
WoNumbers(results) ==
    UNION { UNION { ItemWos(OrganicResults(results[q])[k]) :
                      k \in 1..Len(OrganicResults(results[q])) } : q \in DOMAIN results }

\* No query list is being built.
NoPlan == [pc |-> "idle"]

IdleDiscovery ==
    /\ searches = <<>>
    /\ wo_list = None
    /\ plan = NoPlan

\* The tasks are created and gathered.
InitDiscovery ==
    /\ searches = [q \in Queries |-> PendingSearch]
    /\ wo_list = None
    /\ plan = NoPlan

\* The _fetch_search task of query q ends.
FetchSearch(q) ==
    /\ searches[q].state = "pending"
    /\ \E how \in Hows, body \in Bodies :
          searches' = [searches EXCEPT ![q] =
                         [state |-> "done", how |-> how, result |-> FetchSearchResult(how, body)]]
    /\ UNCHANGED <<wo_list, plan, crawlerVars, poolVars, offDisc>>

\* gather has every result: the identifiers are extracted, sorted, returned.
ExtractWos ==
    /\ wo_list = None
    /\ \A q \in Queries : searches[q].state = "done"
    /\ wo_list' = SortedList(WoNumbers([q \in Queries |-> searches[q].result]))
    /\ UNCHANGED <<searches, plan, crawlerVars, poolVars, offDisc>>

NextDiscovery ==
    \/ \E q \in Queries : FetchSearch(q)
    \/ ExtractWos

-----------------------------------------------------------------------------
(* PipelineService.execute_full_pipeline: one call *)

NoPipeline == [pc |-> "idle"]

IdlePipeline == pipe = NoPipeline

\* The values of the `country` query parameter.
FilterCountries == {None, "BR", "US"}

\* The property table PubChem answers with: every field, or one lacking
\* IUPACName and InChI; failed when the request fails or is not a 200.
PropertySamples ==
    { [failed |-> TRUE],
      [CID |-> "11847", MolecularFormula |-> "C19H19ClN6O2", MolecularWeight |-> "398.8",
       IUPACName |-> "N-propan-2-yl-pyrazole-carboxamide", CanonicalSMILES |-> "CC",
       InChI |-> "InChI=1S", InChIKey |-> "BLIJXOOIHRSQRB"],
      [CID |-> "11847", MolecularFormula |-> "C19H19ClN6O2", MolecularWeight |-> "398.8",
       CanonicalSMILES |-> "CC", InChIKey |-> "BLIJXOOIHRSQRB"] }

\* properties of _layer1_pubchem: built with props.get(), None for a
\* field the table lacks.
Properties(props) ==
    IF props = [failed |-> TRUE] THEN EmptyDict
    ELSE [cid |-> Get(props, "CID"),
          molecular_formula |-> Get(props, "MolecularFormula"),
          molecular_weight |-> Get(props, "MolecularWeight"),
          iupac_name |-> Get(props, "IUPACName"),
          canonical_smiles |-> Get(props, "CanonicalSMILES"),
          inchi |-> Get(props, "InChI"),
          inchi_key |-> Get(props, "InChIKey")]

\* How the synonyms request of _layer1_pubchem ends.
SynonymOutcomes == {"raised", "not_found", "ok"}

\* The dict _layer1_pubchem returns.
Layer1Pubchem(how, props) ==
    IF how = "raised" THEN [error |-> "ClientConnectorError", synonyms |-> <<>>, dev_codes |-> <<>>]
    ELSE IF how = "not_found" THEN [error |-> "PubChem not found"]
    ELSE Properties(props) @@
         [cid |-> Get(Properties(props), "cid"), synonyms |-> <<"ODM-201">>,
          dev_codes |-> <<"ODM-201">>, cas_number |-> None]

\* The lists _layer2_discover_wos can return, sorted.
DiscoveryLists == { <<>>, <<"WO2011051540">>, <<"WO2011051540", "WO2018162793">> }

\* The values of the `limit` parameter.
Limits == {1, 20}

\* wo_numbers[:limit]
Limited(wos, limit) == SubSeq(wos, 1, IF Len(wos) < limit THEN Len(wos) ELSE limit)

\* A family with no application in Brazil.
UsWorldwide ==
    ("2021" :> <<App("2021-05-05", "US", "US12345", "Withdrawn", "not_active")>>)

\* An exception in the place of a value: what a call raised, what a
\* coroutine handed to gather(return_exceptions=True) left in results.
Raised == [raised |-> "Exception"]

\* What crawler.fetch_patent(wo) does for _layer3_patent_details: it returns
\* a record, extracted or terminal, or raises.
FetchOutcomes(wo) ==
    CrawlerReturns(wo)
       \cup { CompleteData(ExtractBasicData(PoolFields, wo), UsWorldwide), Raised }

InList(x, list) == \E i \in 1..Len(list) : list[i] = x

\* The loop over wo_numbers: outs[i] is the outcome of the i-th fetch.
RECURSIVE Layer3Loop(_, _, _, _)
Layer3Loop(outs, i, country_filter, acc) ==
    IF i > Len(outs) THEN acc
    ELSE LET o == outs[i]
             err(m) == [acc EXCEPT !.errors = Append(@, m)]
             add == [acc EXCEPT !.patents = Append(@, o)]
         IN  Layer3Loop(outs, i + 1, country_filter,
                IF o = Raised THEN err("Exception")
                ELSE IF Truthy(Get(o, "erro")) THEN err(o.erro)
                ELSE IF ~Truthy(country_filter) THEN add
                ELSE IF InList(country_filter, IF "paises_familia" \in DOMAIN o
                                               THEN o.paises_familia ELSE <<>>)
                     THEN add ELSE acc)

\* The dict _layer3_patent_details returns, or the exception it raises when
\* the crawler of its `async with` cannot start.
Layer3PatentDetails(run, country_filter) ==
    IF ~run.started THEN Raised
    ELSE Layer3Loop(run.outs, 1, country_filter, [patents |-> <<>>, errors |-> <<>>])

\* The outcomes of the fetches of one _layer3_patent_details call.
Layer3Outcomes(wos) ==
    IF wos = <<>> THEN { [started |-> TRUE, outs |-> <<>>] }
    ELSE { [started |-> FALSE, outs |-> <<>>] } \cup
         { [started |-> TRUE, outs |-> outs] :
             outs \in { o \in [1..Len(wos) -> UNION { FetchOutcomes(wos[i]) : i \in 1..Len(wos) }] :
                          \A i \in 1..Len(wos) : o[i] \in FetchOutcomes(wos[i]) } }

BrPatent ==
    [number |-> "BR-11-2012-008823", title |-> "Orion Corporation",
     filing_date |-> "2010-10-27", source |-> "inpi_direct", link |-> "https://busca.inpi.gov.br"]

\* What _layer4_inpi_brasil, _layer5_fda_data and _layer6_clinical_trials
\* leave in results.
InpiOutcomes ==
    { Raised,
      [br_patents |-> <<>>, errors |-> <<>>],
      [br_patents |-> <<>>, errors |-> <<"INPI darolutamide: TimeoutError">>],
      [br_patents |-> <<BrPatent>>, errors |-> <<>>],
      [br_patents |-> <<BrPatent, BrPatent>>, errors |-> <<>>] }

FdaOutcomes ==
    { [approval_status |-> "Approved", applications |-> <<"NDC">>, total_products |-> 1],
      [approval_status |-> "Not Found", applications |-> <<>>, total_products |-> 0],
      [approval_status |-> "Error", error |-> "TimeoutError", applications |-> <<>>] }

ClinicalOutcomes ==
    { [total_trials |-> 2, trial_details |-> <<"NCT1", "NCT2">>],
      [total_trials |-> 0],
      [total_trials |-> 0, error |-> "TimeoutError"] }

\* The placeholders execute_full_pipeline puts in the place of an exception.
PatentDetailsOr(r) == IF r = Raised THEN [patents |-> <<>>, errors |-> <<"Exception">>] ELSE r
InpiPatentsOr(r)   == IF r = Raised THEN [br_patents |-> <<>>, errors |-> <<"Exception">>] ELSE r
FdaDataOr(r)       == IF r = Raised THEN [approval_status |-> "Error", errors |-> <<"Exception">>] ELSE r
ClinicalDataOr(r)  == IF r = Raised THEN [total_trials |-> 0, errors |-> <<"Exception">>] ELSE r

\* _aggregate_patents: the entries in order, then the first of each number.
WoEntry(patent) ==
    [number |-> Get(patent, "publicacao"), type |-> "WO", title |-> Get(patent, "titulo"),
     source |-> "wipo",
     worldwide_apps |-> Cardinality(DOMAIN Get(patent, "worldwide_applications")),
     countries |-> IF "paises_familia" \in DOMAIN patent THEN patent.paises_familia ELSE <<>>]

BrEntry(patent) ==
    [number |-> patent.number, type |-> "BR", title |-> patent.title, source |-> "inpi",
     countries |-> <<>>]

EveryEntry(entries, seen) == entries

RECURSIVE FirstOfEachNumber(_, _)
FirstOfEachNumber(entries, seen) ==
    IF entries = <<>> THEN <<>>
    ELSE IF Truthy(Head(entries).number) /\ Head(entries).number \notin seen
         THEN <<Head(entries)>> \o FirstOfEachNumber(Tail(entries), seen \cup {Head(entries).number})
         ELSE FirstOfEachNumber(Tail(entries), seen)

AggregatePatents(patent_details, inpi_patents) ==
    FirstOfEachNumber(
        [i \in 1..Len(patent_details.patents) |-> WoEntry(patent_details.patents[i])]
           \o [i \in 1..Len(inpi_patents.br_patents) |-> BrEntry(inpi_patents.br_patents[i])],
        {})

\* pubchem_data.get("iupac_name", "")[:100] raises TypeError on None.
SummaryRaises(pubchem_data) ==
    "iupac_name" \in DOMAIN pubchem_data /\ pubchem_data.iupac_name = None

\* _build_executive_summary
BuildExecutiveSummary(pubchem_data, all_patents, fda_data, clinical_data) ==
    [generic_name |-> IF "iupac_name" \in DOMAIN pubchem_data
                      THEN Prefix(pubchem_data.iupac_name, 100) ELSE "",
     total_patents |-> Len(all_patents),
     total_families |-> Cardinality({ all_patents[i].number : i \in 1..Len(all_patents) }),
     fda_status |-> fda_data.approval_status,
     clinical_trials_count |-> clinical_data.total_trials,
     consistency_score |-> IF all_patents # <<>> THEN 1 ELSE 0]

NotYet == [pc |-> "pending"]

\* GET /api/v1/search/{molecule}?country=...&limit=...
ExecuteFullPipeline(country_filter, limit) ==
    /\ pipe = NoPipeline
    /\ pipe' = [pc |-> "layer1", country_filter |-> country_filter, limit |-> limit]
    /\ UNCHANGED <<crawlerVars, poolVars, offPipe>>

\* pubchem_data = await self._layer1_pubchem(molecule)
Layer1 ==
    /\ pipe.pc = "layer1"
    /\ \E how \in SynonymOutcomes, props \in PropertySamples :
         pipe' = [pc |-> "layer2", country_filter |-> pipe.country_filter, limit |-> pipe.limit,
                  pubchem_data |-> Layer1Pubchem(how, props)]
    /\ UNCHANGED <<crawlerVars, poolVars, offPipe>>

\* wo_numbers = await self._layer2_discover_wos(...); the four coroutines
\* of layers 3-6 are handed to gather.
Layer2 ==
    /\ pipe.pc = "layer2"
    /\ \E wos \in DiscoveryLists :
         pipe' = [pc |-> "gather", country_filter |-> pipe.country_filter, limit |-> pipe.limit,
                  pubchem_data |-> pipe.pubchem_data, wo_numbers |-> wos,
                  patent_details |-> NotYet, inpi_patents |-> NotYet,
                  fda_data |-> NotYet, clinical_data |-> NotYet]
    /\ UNCHANGED <<crawlerVars, poolVars, offPipe>>

Layer3 ==
    /\ pipe.pc = "gather" /\ pipe.patent_details = NotYet
    /\ \E run \in Layer3Outcomes(Limited(pipe.wo_numbers, pipe.limit)) :
         pipe' = [pipe EXCEPT !.patent_details = Layer3PatentDetails(run, pipe.country_filter)]
    /\ UNCHANGED <<crawlerVars, poolVars, offPipe>>

Layer4 ==
    /\ pipe.pc = "gather" /\ pipe.inpi_patents = NotYet
    /\ \E r \in InpiOutcomes : pipe' = [pipe EXCEPT !.inpi_patents = r]
    /\ UNCHANGED <<crawlerVars, poolVars, offPipe>>

Layer5 ==
    /\ pipe.pc = "gather" /\ pipe.fda_data = NotYet
    /\ \E r \in FdaOutcomes : pipe' = [pipe EXCEPT !.fda_data = r]
    /\ UNCHANGED <<crawlerVars, poolVars, offPipe>>

Layer6 ==
    /\ pipe.pc = "gather" /\ pipe.clinical_data = NotYet
    /\ \E r \in ClinicalOutcomes : pipe' = [pipe EXCEPT !.clinical_data = r]
    /\ UNCHANGED <<crawlerVars, poolVars, offPipe>>

\* gather has the four results: placeholders, aggregation, summary and the
\* response, or the exception that leaves execute_full_pipeline.
BuildResponse ==
    /\ pipe.pc = "gather"
    /\ NotYet \notin {pipe.patent_details, pipe.inpi_patents, pipe.fda_data, pipe.clinical_data}
    /\ LET patent_details == PatentDetailsOr(pipe.patent_details)
           inpi_patents == InpiPatentsOr(pipe.inpi_patents)
           fda_data == FdaDataOr(pipe.fda_data)
           clinical_data == ClinicalDataOr(pipe.clinical_data)
           all_patents == AggregatePatents(patent_details, inpi_patents)
       IN  IF SummaryRaises(pipe.pubchem_data)
           THEN pipe' = [pipe EXCEPT !.pc = "raised"]
           ELSE pipe' = [pc |-> "returned", country_filter |-> pipe.country_filter,
                         limit |-> pipe.limit, wo_numbers |-> pipe.wo_numbers,
                         patent_details |-> pipe.patent_details,
                         inpi_patents |-> pipe.inpi_patents,
                         fda_data |-> pipe.fda_data, clinical_data |-> pipe.clinical_data,
                         pubchem_data |-> pipe.pubchem_data,
                         response |->
                           [executive_summary |->
                               BuildExecutiveSummary(pipe.pubchem_data, all_patents,
                                                     fda_data, clinical_data),
                            pubchem_data |-> pipe.pubchem_data,
                            country_filter |-> IF Truthy(pipe.country_filter)
                                               THEN pipe.country_filter ELSE "ALL",
                            wo_patents |-> patent_details.patents,
                            br_patents_inpi |-> inpi_patents.br_patents,
                            all_patents |-> all_patents,
                            fda_data |-> fda_data,
                            clinical_trials_data |-> clinical_data]]
    /\ UNCHANGED <<crawlerVars, poolVars, offPipe>>

NextPipeline ==
    \/ \E c \in FilterCountries, limit \in Limits : ExecuteFullPipeline(c, limit)
    \/ Layer1
    \/ Layer2
    \/ Layer3
    \/ Layer4
    \/ Layer5
    \/ Layer6
    \/ BuildResponse

-----------------------------------------------------------------------------
(* BatchService.process_batch: one call over molecules 1..n, a molecule
   standing for its place in the list *)

NoBatch == [pc |-> "idle"]

IdleBatch == batch = NoBatch

\* How execute_full_pipeline can end for process_one.
PipelineEnds == {"returned", "raised"}

\* What process_one returns: the report with molecule and status added, or
\* the dict of its except branch.
ProcessOneResult(molecule, how) ==
    IF how = "returned"
    THEN [molecule |-> molecule, status |-> "success"]
    ELSE [molecule |-> molecule, status |-> "error", error |-> "TypeError"]

SemaphoreFreeAlways(s) == TRUE

\* async with semaphore: the acquire goes through without waiting.
SemaphoreFree(s) == s > 0

\* The split of the gathered results: exceptions and status 'error' are
\* failures, everything else a success.
IsFailure(r) == r.status \in {"exception", "error"}

FailedExceptionsOnly(results) == SelectSeq(results, LAMBDA r : r.status = "exception")

Failed(results) == SelectSeq(results, IsFailure)

Successful(results) == SelectSeq(results, LAMBDA r : ~IsFailure(r))

BatchReport(results) ==
    [batch_summary |-> [total_molecules |-> Len(results),
                        successful |-> Len(Successful(results)),
                        failed |-> Len(Failed(results))],
     results |-> Successful(results),
     errors |-> Failed(results)]

ProcessOneQueued == [pc |-> "queued"]

\* process_batch(molecules): the semaphore and one process_one task per
\* molecule, gathered.
ProcessBatch(n) ==
    /\ batch = NoBatch
    /\ batch' = [pc |-> "gather", sem |-> MaxConcurrent,
                 one |-> [i \in 1..n |-> ProcessOneQueued]]
    /\ UNCHANGED <<crawlerVars, poolVars, offBatch>>

\* process_one(molecule) acquires the semaphore and awaits the pipeline.
ProcessOneEnter(i) ==
    /\ batch.pc = "gather"
    /\ i \in DOMAIN batch.one
    /\ batch.one[i].pc = "queued"
    /\ SemaphoreFree(batch.sem)
    /\ batch' = [batch EXCEPT !.sem = @ - 1, !.one[i] = [pc |-> "running"]]
    /\ UNCHANGED <<crawlerVars, poolVars, offBatch>>

\* The pipeline of molecule i returns or raises: process_one builds its
\* result and releases the semaphore.
ProcessOneExit(i, how) ==
    /\ batch.pc = "gather"
    /\ i \in DOMAIN batch.one
    /\ batch.one[i].pc = "running"
    /\ batch' = [batch EXCEPT !.sem = Release(@),
                              !.one[i] = [pc |-> "done", result |-> ProcessOneResult(i, how)]]
    /\ UNCHANGED <<crawlerVars, poolVars, offBatch>>

\* gather has every result: process_batch splits them and returns.
BatchReturn ==
    /\ batch.pc = "gather"
    /\ \A i \in DOMAIN batch.one : batch.one[i].pc = "done"
    /\ batch' = [pc |-> "returned", sem |-> batch.sem, one |-> batch.one,
                 report |-> BatchReport([i \in DOMAIN batch.one |-> batch.one[i].result])]
    /\ UNCHANGED <<crawlerVars, poolVars, offBatch>>

NextBatch ==
    \/ \E n \in 0..MaxMolecules : ProcessBatch(n)
    \/ \E i \in 1..MaxMolecules : ProcessOneEnter(i)
    \/ \E i \in 1..MaxMolecules, how \in PipelineEnds : ProcessOneExit(i, how)
    \/ BatchReturn

\* Neither a pipeline call nor a batch is observed.
IdleOrchestration == IdlePipeline /\ IdleBatch

-----------------------------------------------------------------------------
(* PipelineService._layer2_discover_wos: the queries built and executed *)

\* Development codes PubChem synonyms yield, and the lists of them.
DevCodes == {"ODM-201", "BAY-1841788"}
DevCodeLists == SeqsUpTo(DevCodes, MaxDevCodes)

\* range(2011, 2025)
QueryYears == 2011..2024

\* f"{molecule} patent WO{year}"
YearQuery(molecule, year) == molecule \o " patent WO" \o ToString(year)

\* for year in range(2011, 2025): queries.append(...)
YearQueries(molecule) == [k \in 1..Cardinality(QueryYears) |-> YearQuery(molecule, 2010 + k)]

\* f"{dev_code} patent WO" and f'"{dev_code}" WO patent'
DevCodeQueryPair(dev_code) ==
    << dev_code \o " patent WO", "\"" \o dev_code \o "\" WO patent" >>

\* for dev_code in pubchem_data.get("dev_codes", [])[:5]: two appends each
RECURSIVE DevCodeQueries(_)
DevCodeQueries(dev_codes) ==
    IF dev_codes = <<>> THEN <<>>
    ELSE DevCodeQueryPair(Head(dev_codes)) \o DevCodeQueries(Tail(dev_codes))

\* queries.extend([...]): the four organization and compound queries
CompanyQueries(molecule) ==
    << molecule \o " Orion Corporation patent",
       molecule \o " Bayer patent",
       "\"" \o molecule \o "\" pharmaceutical patent WO",
       "\"" \o molecule \o "\" compound patent WO" >>

\* The list `queries` before the searches are started.
BuildQueryList(molecule, dev_codes) ==
    YearQueries(molecule) \o DevCodeQueries(Limited(dev_codes, 5)) \o CompanyQueries(molecule)

\* _layer2_discover_wos(molecule, pubchem_data) is called.
InitQueries ==
    /\ searches = <<>>
    /\ wo_list = None
    /\ \E dev_codes \in DevCodeLists :
          plan = [pc |-> "called", molecule |-> "darolutamide", dev_codes |-> dev_codes]

\* The three groups of queries are appended to `queries`.
BuildQueries ==
    /\ plan.pc = "called"
    /\ plan' = [pc |-> "built", molecule |-> plan.molecule, dev_codes |-> plan.dev_codes,
                queries |-> BuildQueryList(plan.molecule, plan.dev_codes)]
    /\ UNCHANGED <<searches, wo_list, crawlerVars, poolVars, offDisc>>

\* for query in queries[:20]: one _fetch_search task each.
StartSearches ==
    /\ plan.pc = "built"
    /\ plan' = [pc |-> "searching", molecule |-> plan.molecule, dev_codes |-> plan.dev_codes,
                queries |-> plan.queries, executed |-> Limited(plan.queries, 20)]
    /\ UNCHANGED <<searches, wo_list, crawlerVars, poolVars, offDisc>>

NextQueries == BuildQueries \/ StartSearches

-----------------------------------------------------------------------------
(* Specifications *)

\* The pool serving requests after startup() initialized it.
Init == InitPool /\ InitCrawlerIdle /\ InitStarted(PoolSize) /\ IdleTable /\ IdleDiscovery /\ IdleOrchestration
Next == NextPool
Spec == Init /\ [][Next]_vars

\* One call of fetch_patent on a crawler of any max_retries.
InitC == InitCrawler /\ InitPool /\ InitStarted(PoolSize) /\ IdleTable /\ IdleDiscovery /\ IdleOrchestration
SpecCrawler == InitC /\ [][NextCrawler]_vars

\* The pool used without initialize(), or after close(): self.pool is empty.
InitEmptyPool == InitCrawlerIdle /\ cache = EmptyDict /\ pool = 0
                   /\ task = [t \in Tasks |-> IdleTask] /\ sem = [m \in Calls |-> 0]
                   /\ sessions = <<>> /\ life = NoCall /\ IdleTable /\ IdleDiscovery /\ IdleOrchestration
NextEmptyPool == NextPool \/ \E t \in Tasks : TempCrawlerRaises(t)
SpecEmptyPool == InitEmptyPool /\ [][NextEmptyPool]_vars

\* The pool of the service from its construction on, through any sequence of
\* initialize() and close() calls, serving requests meanwhile.
InitL == InitLifecycle /\ InitCrawlerIdle /\ IdleTable /\ IdleDiscovery /\ IdleOrchestration
SpecLifecycle == InitL /\ [][NextLifecycle]_vars

\* The initialized pool asked for one patent under the spellings of VariantIds.
SpecVariants == Init /\ [][NextVariants]_vars

\* One call of _extract_worldwide_applications on any page.
InitT == InitTable /\ InitCrawlerIdle /\ InitPool /\ InitStarted(PoolSize) /\ IdleDiscovery /\ IdleOrchestration
SpecTable == InitT /\ [][NextTable]_vars

\* One call of _layer2_discover_wos.
InitD == InitDiscovery /\ InitCrawlerIdle /\ InitPool /\ InitStarted(PoolSize) /\ IdleTable /\ IdleOrchestration
SpecDiscovery == InitD /\ [][NextDiscovery]_vars

\* One call of process_batch.
SpecBatch == Init /\ [][NextBatch]_vars

\* One call of execute_full_pipeline.
SpecPipeline == Init /\ [][NextPipeline]_vars

\* One call of _layer2_discover_wos up to the start of its searches.
InitQ == InitQueries /\ InitCrawlerIdle /\ InitPool /\ InitStarted(PoolSize) /\ IdleTable /\ IdleOrchestration
SpecQueries == InitQ /\ [][NextQueries]_vars

\* The two semaphores under fair scheduling: one fetch_multiple call at a time
\* on a pool that is started or empty, or one process_batch call. The event
\* loop runs every coroutine that can run, the semaphores wake their waiters,
\* and every extraction and every pipeline ends.
InitPermits ==
    /\ InitCrawlerIdle /\ cache = EmptyDict
    /\ task = [t \in Tasks |-> IdleTask] /\ sem = [m \in Calls |-> 0]
    /\ \/ pool = PoolSize /\ InitStarted(PoolSize)
       \/ pool = 0 /\ sessions = <<>> /\ life = NoCall
    /\ IdleTable /\ IdleDiscovery /\ IdleOrchestration

\* A fetch_multiple call starts when no other call is open.
FetchMultipleAlone(m, wos) ==
    /\ IdleBatch
    /\ \A t \in Tasks : task[t].pc = "idle"
    /\ FetchMultiple(m, wos)

\* A process_batch call starts when no other call is open.
ProcessBatchAlone(n) ==
    /\ \A t \in Tasks : task[t].pc = "idle"
    /\ ProcessBatch(n)

NextPermits ==
    \/ \E m \in Calls, wos \in IdSeqs : FetchMultipleAlone(m, wos)
    \/ \E t \in Tasks : FetchOne(t)
    \/ \E t \in Tasks : CrawlerReturn(t)
    \/ \E t \in Tasks : TempCrawlerRaises(t)
    \/ \E m \in Calls : GatherReturn(m)
    \/ \E n \in 0..MaxMolecules : ProcessBatchAlone(n)
    \/ \E i \in 1..MaxMolecules : ProcessOneEnter(i)
    \/ \E i \in 1..MaxMolecules, how \in PipelineEnds : ProcessOneExit(i, how)
    \/ BatchReturn

FairPermits ==
    /\ \A t \in Tasks : WF_vars(FetchOne(t))
    /\ \A t \in Tasks : WF_vars(CrawlerReturn(t) \/ TempCrawlerRaises(t))
    /\ \A m \in Calls : WF_vars(GatherReturn(m))
    /\ \A i \in 1..MaxMolecules : WF_vars(ProcessOneEnter(i))
    /\ \A i \in 1..MaxMolecules : WF_vars(\E how \in PipelineEnds : ProcessOneExit(i, how))
    /\ WF_vars(BatchReturn)

SpecPermits == InitPermits /\ [][NextPermits]_vars /\ FairPermits

-----------------------------------------------------------------------------
(* WIPOCrawler.fetch_patent: claims checked under SpecCrawler *)

Attempts == Len(page)

AllAttemptsFailed == Cardinality(Failures) = Attempts

\* C1: fetch_patent never lets an exception reach its caller, whatever fails
\* in page creation, navigation, extraction or validation: it returns a
\* record of the identifier asked for, and when every attempt failed that
\* record carries the key 'erro'.
C1_NeverRaises ==
    /\ ~raised
    /\ pc = "done" =>
         /\ result # NoData
         /\ result.publicacao = wo_number
         /\ AllAttemptsFailed => IsErrorRecord(result) /\ result.status = "FALHA"

C1_Witness ==
    /\ pc = "done"
    /\ Attempts = 3
    /\ AllAttemptsFailed
    /\ {outcome[k].at : k \in 1..3} = {"create", "goto", "extract"}
    /\ IsErrorRecord(result)

\* C2: with max_retries = N >= 1 a call makes at most N attempts (and at most
\* N page loads), exactly N when every attempt failed (N page loads when each
\* of them got as far as loading), and the attempt that passes validation is
\* the last one started.
C2_AtMostNAttempts ==
    max_retries >= 1 =>
      /\ Attempts <= max_retries
      /\ loads <= Attempts
      /\ (pc = "done" /\ AllAttemptsFailed) => Attempts = max_retries
      /\ (pc = "done" /\ AllAttemptsFailed /\ \A k \in 1..Attempts : outcome[k].at # "create")
            => loads = max_retries
      /\ \A k \in 1..Attempts : k < Attempts => k \in Failures
      /\ (pc = "done" /\ ~IsErrorRecord(result)) => Failures = 1..(Attempts - 1)

C2_Witness ==
    /\ pc = "done"
    /\ max_retries = 3
    /\ Attempts = 2
    /\ ~IsErrorRecord(result)
    /\ loads = 2

\* Every attempt of the call raised PlaywrightTimeout in page.goto.
TimedOutEveryAttempt ==
    \A k \in 1..Attempts : outcome[k] = [at |-> "goto", kind |-> "PlaywrightTimeout"]

C4_PagesClosed ==
    /\ \A k \in 1..Attempts : page[k] = "open" => k = Attempts /\ pc # "done"
    /\ \A k \in 1..Attempts : k < Attempts => page[k] \in {None, "closed"}
    /\ pc = "done" => \A k \in 1..Attempts : page[k] # "open"

C4_Witness ==
    /\ pc = "done"
    /\ Attempts = 3
    /\ \A k \in 1..3 : page[k] = "closed"
    /\ {outcome[k].at : k \in 1..3} = {"goto", "settle", "none"}

\* None of title, abstract, applicant, the three dates and the worldwide
\* applications holds anything.
AllEmpty(d) ==
    /\ ~Truthy(d.titulo) /\ ~Truthy(d.resumo) /\ ~Truthy(d.titular)
    /\ ~Truthy(d.datas.deposito) /\ ~Truthy(d.datas.publicacao)
    /\ ~Truthy(d.datas.prioridade)
    /\ Entries(d.worldwide_applications) = {}

\* C5: an extraction is rejected as 'no data extracted' exactly when title,
\* abstract, applicant, the three dates and the worldwide applications are
\* all empty; with any of them present (a date alone included) it is accepted.
C5_RejectedIffAllEmpty ==
    /\ (pc = "except" /\ exc = NoDataError) => AllEmpty(data)
    /\ (pc = "finally" /\ "titulo" \in DOMAIN data) => ~AllEmpty(data)

-----------------------------------------------------------------------------
(* CrawlerPool: claims checked under Spec *)

\* Task t enters CrawlerPool.fetch_patent(wo) in this step.
EntersPoolFetch(t, wo) ==
    \/ \E c \in Countries : GetWipoPatent(t, wo, c)
    \/ FetchOne(t) /\ task[t].wo = wo

\* C6: every record stored in the cache is a non-error record: a fetch that
\* ended in failure leaves the cache as it was, whatever the message.
C6_NoErrorRecordCached ==
    \A wo \in DOMAIN cache : ~IsErrorRecord(cache[wo])

\* C7: when the cache holds a record for an identifier, CrawlerPool.fetch_patent
\* returns that record and no extraction is started.
C7_CacheHitNoCrawler ==
    [][\A t \in Tasks, wo \in Ids :
         (wo \in DOMAIN cache /\ EntersPoolFetch(t, wo)) =>
            /\ InFlight' = InFlight
            /\ task[t].pc = "queued" =>
                 /\ task'[t].pc = "done"
                 /\ task'[t].calls = 0
                 /\ task'[t].data = cache[wo]]_vars

C7_Witness ==
    \E t \in Tasks :
       /\ task[t].pc = "done"
       /\ task[t].calls = 0
       /\ task[t].wo \in DOMAIN cache
       /\ task[t].data = cache[task[t].wo]
       /\ ~IsErrorRecord(task[t].data)

\* No extraction of wo that succeeded has left its record in the cache.
NoGoodRecordCached(wo) == wo \in DOMAIN cache => IsErrorRecord(cache[wo])

\* C8: once a pool fetch of an identifier has ended in an error record (a
\* fetch_one still holds it) and no successful fetch of that identifier has
\* stored a record, the pool fetch of it that is entered next starts a fresh
\* extraction instead of returning a stored result.
C8_FreshAfterError ==
    [][\A t, u \in Tasks :
         (/\ task[u].pc = "done"
          /\ task[u].calls = 1
          /\ IsErrorRecord(task[u].data)
          /\ NoGoodRecordCached(task[u].wo)
          /\ EntersPoolFetch(t, task[u].wo)) => task'[t].pc = "fetching"]_vars

\* C9: the extractions in flight never exceed pool_size, whoever the callers.
C9_InFlightWithinPoolSize ==
    Cardinality(InFlight) <= PoolSize

\* The extractions in flight for fetch_multiple call m.
InFlightOf(m) == {t \in InFlight : task[t].call = m}

\* C10: within one fetch_multiple call at most pool_size extractions are in
\* flight at any time.
C10_CallWithinPoolSize ==
    \A m \in Calls : Cardinality(InFlightOf(m)) <= PoolSize

C10_Witness ==
    \E m \in Calls :
       /\ Cardinality(InFlightOf(m)) = PoolSize
       /\ \E t \in Tasks : task[t].call = m /\ task[t].pc = "queued"
       /\ sem[m] = 0

-----------------------------------------------------------------------------
(* CrawlerPool.initialize and close: claims checked under SpecLifecycle *)

\* C11: whenever initialize() has returned normally the pool holds exactly
\* pool_size sessions, whatever initialize() and close() calls came before.
C11_InitializedHoldsPoolSize ==
    life.last = "initialize returned" => Len(sessions) = ApiPoolSize

\* self.pool holds some sessions, but fewer than pool_size.
PartialPool == 0 < Len(sessions) /\ Len(sessions) < ApiPoolSize

\* C12: once initialize() has reported a failure to its caller, a fetch that
\* starts is never served from a partial set of sessions left in the pool.
C12_NoFetchFromPartialPool ==
    [][\A t \in Tasks :
         (/\ life.last = "initialize raised"
          /\ task[t].pc # "fetching"
          /\ task'[t].pc = "fetching") => (~PartialPool \/ task'[t].temp)]_vars

\* C13: when close() is over, however the close of each session went, every
\* session has been closed and the pool is empty.
C13_CloseEmptiesPool ==
    life.last \in {"close returned", "close raised"} => sessions = <<>>

-----------------------------------------------------------------------------
(* _extract_worldwide_applications: claims checked under SpecTable *)

IsTwoLetters(s) == Len(s) = 2 /\ \A c \in Chars(s) : IsAlpha(c)

IsYear(s) == Len(s) = 4 /\ \A c \in Chars(s) : IsDigit(c)

\* The members fetch_patent gives paises_familia for this worldwide dict.
FamilyCountries(w) == {c \in AllCountries(w) : Truthy(c)}

\* C14: every entry of worldwide_applications and every member of
\* paises_familia has a country code of exactly 2 letters; a row or country
\* element with any other candidate code contributes to neither.
C14_CountryCodesTwoLetters ==
    /\ \A e \in Entries(worldwide) : IsTwoLetters(worldwide[e[1]][e[2]].country_code)
    /\ \A c \in FamilyCountries(worldwide) : IsTwoLetters(c)

\* C15: every key of worldwide_applications is a 4-digit year or the sentinel,
\* and every entry sits in the bucket of its filing year when its filing date
\* starts with one, in the sentinel bucket otherwise.
C15_BucketedByFilingYear ==
    /\ \A y \in DOMAIN worldwide : IsYear(y) \/ y = "Unknown"
    /\ \A e \in Entries(worldwide) :
         LET fd == worldwide[e[1]][e[2]].filing_date
         IN  e[1] = IF IsYear(Prefix(fd, 4)) THEN Prefix(fd, 4) ELSE "Unknown"

-----------------------------------------------------------------------------
(* Records handed to callers: claims checked under Spec *)

\* paises_familia of record d is what its worldwide_applications give.
FamilyDerived(d) ==
    "paises_familia" \in DOMAIN d =>
        d.paises_familia = Sorted(FamilyCountries(d.worldwide_applications))

\* C16: in every record handed to a caller (what the crawler returns, what
\* the pool holds in its cache and returns from it, what the single-patent
\* lookup answers with or without a country filter, which is the dict it
\* leaves in the cache), paises_familia is the sorted set of the country
\* codes of the record's worldwide_applications.
C16_FamilyDerivedFromWorldwide ==
    /\ \A wo \in Ids : \A r \in CrawlerReturns(wo) : FamilyDerived(r)
    /\ \A wo \in DOMAIN cache : FamilyDerived(cache[wo])
    /\ \A t \in Tasks : task[t].pc = "done" => FamilyDerived(task[t].data)

-----------------------------------------------------------------------------
(* Identifier spellings: claims checked under SpecVariants *)

\* C17: normalization gives a canonical identifier back unchanged, and every
\* spelling of one identifier (lowercase prefix, hyphens, spaces, slashes) is
\* fetched from the same detail-page url as its canonical form.
C17_VariantsSameUrl ==
    /\ \A id \in Ids : Normalize(id) = id
    /\ \A k \in DOMAIN cache : cache[k].documentos.patentscope_link = Link(TheId)

\* C18: the cache is keyed by the canonical identifier and every record
\* carries it, so that once a fetch of one spelling has stored its record, a
\* fetch of any spelling of the same identifier is a cache hit.
C18_CanonicalCacheKey ==
    [][/\ \A k \in DOMAIN cache' : k = TheId /\ cache'[k].publicacao = TheId
       /\ \A t \in Tasks, wo \in VariantIds :
            (GetWipoPatent(t, wo, None) /\ \E k \in DOMAIN cache : ~IsErrorRecord(cache[k]))
               => task'[t].pc # "fetching"]_vars

-----------------------------------------------------------------------------
(* _layer2_discover_wos: claims checked under SpecDiscovery *)

\* WO followed by 10 digits.
IsCanonical(wo) == Len(wo) = 12 /\ Prefix(wo, 2) = "WO" /\ DigitsAt(wo, 3, 10)

\* The identifiers the hits of the queries in S were written to contain.
Mentioned(S) ==
    UNION { UNION { OrganicResults(searches[q].result)[k].mentions :
                      k \in 1..Len(OrganicResults(searches[q].result)) } : q \in S }

Listed == { wo_list[i] : i \in 1..Len(wo_list) }

Succeeded == {q \in Queries : searches[q].state = "done" /\ searches[q].how = "ok"}

\* C20: a query that fails, times out or is answered with another status
\* hands the gather an empty result instead of an exception, and the
\* discovery result holds exactly the identifiers found by the queries that
\* succeeded.
C20_FailedQueriesContributeNothing ==
    /\ \A q \in Queries : searches[q].state = "done" /\ searches[q].how # "ok"
                             => searches[q].result = EmptyDict
    /\ wo_list # None => Listed = Mentioned(Succeeded)

C20_Witness ==
    /\ wo_list # None
    /\ wo_list = <<"WO2018162793">>
    /\ \E q, r \in Queries : searches[q].how = "error" /\ searches[r].how = "ok"

-----------------------------------------------------------------------------
(* Result shape of WIPOCrawler.fetch_patent *)

\* The keys of the record a successful extraction returns.
SuccessFields == DOMAIN CompleteData(ExtractBasicData(CHOOSE f \in BasicFields : TRUE, TheId), EmptyDict)

\* C27: a record fetch_patent returns has the keys of a successful record
\* whether it was built by the extraction or by the terminal failure branch,
\* erro and status aside.
C27_SameFieldsBothPaths ==
    (pc = "done" /\ ~raised) => DOMAIN result \ {"erro", "status"} = SuccessFields

-----------------------------------------------------------------------------
(* Single-patent lookups of one identifier under several country filters *)

NextFilter ==
    \/ \E t \in Tasks, wo \in Ids, c \in FilterCountries : GetWipoPatent(t, wo, c)
    \/ \E t \in Tasks : CrawlerReturn(t)

\* The initialized pool asked for patents with and without filters.
SpecFilter == Init /\ [][NextFilter]_vars

\* Task t answers a lookup of wo filtered by c in this step, from the
\* cache or from the extraction it was waiting for, with a record that is
\* not a terminal failure; the answer is the dict the cache holds afterwards.
AnswersFiltered(t, wo, c) ==
    /\ Truthy(c)
    /\ wo \in DOMAIN cache' /\ ~IsErrorRecord(cache'[wo])
    /\ \/ GetWipoPatent(t, wo, c) /\ CacheHit(wo)
       \/ /\ task[t].pc = "fetching" /\ task[t].country = c /\ task[t].wo = wo /\ task'[t].pc = "idle"
          /\ wo \in DOMAIN cache' /\ cache'[wo].country_filter_applied = c
          /\ \A u \in Tasks \ {t} : task'[u] = task[u]

\* C24: a lookup filtered by country c answers with exactly the entries of
\* country c of the extracted record, over all years, and no year left
\* without entries.
C24_FilterKeepsExactlyCountry ==
    [][\A t \in Tasks, wo \in Ids, c \in FilterCountries :
          AnswersFiltered(t, wo, c) =>
             cache'[wo].worldwide_applications = FilterApps(PoolWorldwide, c)]_vars

\* C28: the record an unfiltered pool fetch returns, the cached one, holds
\* the worldwide_applications as extracted whatever filtered lookups came
\* before.
C28_FilterLeavesCacheIntact ==
    \A wo \in DOMAIN cache :
        ~IsErrorRecord(cache[wo]) => cache[wo].worldwide_applications = PoolWorldwide

-----------------------------------------------------------------------------
(* Overlapping pool fetches: claims checked under Spec *)

\* crawler = self.pool[0]: the place in self.pool of the crawler an
\* extraction of the pool runs on (0: a temporary crawler of its own).
SessionOf(t) == IF task[t].temp THEN 0 ELSE 1

\* C29: at most one extraction per identifier is in flight at any time.
C29_OneExtractionPerIdentifier ==
    \A t, u \in InFlight : t # u => task[t].wo # task[u].wo

\* C30: the extractions in flight on crawlers of the pool run on distinct
\* crawlers.
C30_DistinctSessions ==
    \A t, u \in InFlight :
        (t # u /\ SessionOf(t) # 0 /\ SessionOf(u) # 0) => SessionOf(t) # SessionOf(u)

-----------------------------------------------------------------------------
(* process_batch: claims checked under SpecBatch *)

\* The molecules whose pipeline is executing, and those not yet started.
RunningPipelines == {i \in DOMAIN batch.one : batch.one[i].pc = "running"}
WaitingMolecules == {i \in DOMAIN batch.one : batch.one[i].pc = "queued"}

\* C25: while process_batch runs, at most max_concurrent pipelines are
\* executing, and a molecule starts only when fewer than max_concurrent are:
\* with the cap reached, the next start follows the end of a running
\* pipeline.
C25_AtMostMaxConcurrent ==
    batch.pc = "gather" =>
        /\ Cardinality(RunningPipelines) <= MaxConcurrent
        /\ batch.sem = MaxConcurrent - Cardinality(RunningPipelines)

C25_Witness ==
    /\ batch.pc = "gather"
    /\ Cardinality(RunningPipelines) = MaxConcurrent
    /\ WaitingMolecules # {}
    /\ \E i \in DOMAIN batch.one : batch.one[i].pc = "done"

\* The entries of the report, successes and failures, about molecule i.
OutcomesOf(i) ==
    { <<"results", k>> : k \in {j \in 1..Len(batch.report.results) : batch.report.results[j].molecule = i} }
       \cup { <<"errors", k>> : k \in {j \in 1..Len(batch.report.errors) :
                                          "molecule" \in DOMAIN batch.report.errors[j]
                                             /\ batch.report.errors[j].molecule = i} }

\* C26: the report of process_batch holds one outcome for each molecule
\* submitted, a success where its pipeline returned and a failure where it
\* raised, and its counts of successes and failures add up to the number of
\* molecules.
C26_OneOutcomePerMolecule ==
    batch.pc = "returned" =>
        /\ \A i \in DOMAIN batch.one :
              /\ Cardinality(OutcomesOf(i)) = 1
              /\ \A o \in OutcomesOf(i) :
                    batch.report[o[1]][o[2]] = batch.one[i].result
        /\ batch.report.batch_summary.successful + batch.report.batch_summary.failed
              = Len(batch.one)
        /\ batch.report.batch_summary.total_molecules = Len(batch.one)

C26_Witness ==
    /\ batch.pc = "returned"
    /\ Len(batch.one) >= 3
    /\ batch.report.batch_summary.failed = 1
    /\ batch.report.batch_summary.successful = Len(batch.one) - 1
    /\ batch.report.errors[1].molecule = 1

-----------------------------------------------------------------------------
(* execute_full_pipeline: claims checked under SpecPipeline *)

PipelineEnded == pipe.pc \in {"returned", "raised"}

\* C21: a pipeline call whose discovery found no identifier processes no
\* patent, raises nothing and returns a report with total_patents = 0.
C21_ZeroHitsEmptyReport ==
    (PipelineEnded /\ pipe.wo_numbers = <<>>) =>
        /\ pipe.patent_details = [patents |-> <<>>, errors |-> <<>>]
        /\ pipe.pc = "returned"
        /\ pipe.response.executive_summary.total_patents = 0

\* C22: whatever the molecular lookup and the four stages run in parallel
\* return or raise, execute_full_pipeline raises nothing, and its report
\* holds each stage's own result, or that stage's placeholder where it
\* failed.
C22_NeverFailsOutright ==
    /\ pipe.pc # "raised"
    /\ pipe.pc = "returned" =>
          /\ pipe.response.wo_patents = PatentDetailsOr(pipe.patent_details).patents
          /\ pipe.response.br_patents_inpi = InpiPatentsOr(pipe.inpi_patents).br_patents
          /\ pipe.response.fda_data = FdaDataOr(pipe.fda_data)
          /\ pipe.response.clinical_trials_data = ClinicalDataOr(pipe.clinical_data)

\* C23: with a country filter, every patent record of the report holds
\* only worldwide applications of the filter country and carries the tag
\* of the filter applied.
C23_FilteredAndTagged ==
    (pipe.pc = "returned" /\ Truthy(pipe.country_filter)) =>
        \A i \in 1..Len(pipe.response.wo_patents) :
            LET patent == pipe.response.wo_patents[i]
            IN  /\ AllCountries(patent.worldwide_applications) \subseteq {pipe.country_filter}
                /\ Get(patent, "country_filter_applied") = pipe.country_filter

-----------------------------------------------------------------------------
(* The National Phase tab, the table and the country sweep: claims checked
   under SpecTable *)

\* worldwide as the loop over the table rows leaves it.
RECURSIVE TableEntries(_, _)
TableEntries(rows, w) ==
    IF rows = <<>> THEN w ELSE TableEntries(Tail(rows), RowResult(w, Head(rows)))

\* C31: when the table gave at least one entry, the call returns the
\* table's entries and nothing else: the country sweep adds no entry.
C31_SweepOnlyWhenTableEmpty ==
    (scan.stage = "done" /\ Entries(TableEntries(dom.rows, EmptyDict)) # {})
        => worldwide = TableEntries(dom.rows, EmptyDict)

\* C32: on a page without a National Phase control the call returns an
\* empty worldwide dict, and a record with that dict passes the validation
\* of fetch_patent whenever a title, an abstract or an applicant was
\* extracted.
C32_NoControlNotFatal ==
    (scan.stage = "done" /\ ~dom.tab) =>
        /\ worldwide = EmptyDict
        /\ \A f \in BasicFields :
              (Truthy(f.titulo) \/ Truthy(f.resumo) \/ Truthy(f.titular))
                 => Accepted(CompleteData(ExtractBasicData(f, TheId), worldwide))

C32_Witness ==
    scan.stage = "done" /\ ~dom.tab /\ worldwide = EmptyDict

\* C37: the category of every stored application is one of the four, and
\* follows the keywords of its legal-status text: 'grant' in any case gives
\* active whatever else the text holds, 'withdraw' or 'abandon' without
\* 'grant' gives not_active, no text gives unknown.
C37_CategoryByKeyword ==
    \A e \in Entries(worldwide) :
        LET a == worldwide[e[1]][e[2]]
            text == Lower(a.legal_status)
        IN  /\ a.legal_status_cat \in {"active", "not_active", "pending", "unknown"}
            /\ Contains(text, "grant") => a.legal_status_cat = "active"
            /\ (~Contains(text, "grant") /\ (Contains(text, "withdraw") \/ Contains(text, "abandon")))
                  => a.legal_status_cat = "not_active"
            /\ a.legal_status = "" => a.legal_status_cat = "unknown"

C37_Witness ==
    /\ scan.stage = "done"
    /\ \E e \in Entries(worldwide) :
          /\ worldwide[e[1]][e[2]].legal_status = "GRANTED, then withdrawn"
          /\ worldwide[e[1]][e[2]].legal_status_cat = "active"
    /\ \E e \in Entries(worldwide) :
          /\ worldwide[e[1]][e[2]].application_number = "EP19000001"
          /\ worldwide[e[1]][e[2]].legal_status_cat = "unknown"

\* C39: no key of the worldwide dict the call returns maps to an empty list.
C39_NoEmptyYearBucket ==
    scan.stage = "done" => \A y \in DOMAIN worldwide : worldwide[y] # <<>>

-----------------------------------------------------------------------------
(* The merged patent list: claim checked under SpecPipeline *)

\* The numbers the two sources of the merge hold.
WoNumbersOf(p) ==
    { PatentDetailsOr(p.patent_details).patents[i].publicacao :
        i \in 1..Len(PatentDetailsOr(p.patent_details).patents) }
BrNumbersOf(p) ==
    { InpiPatentsOr(p.inpi_patents).br_patents[i].number :
        i \in 1..Len(InpiPatentsOr(p.inpi_patents).br_patents) }

\* C35: all_patents holds every number of the two sources once, as the
\* scrape-derived entry when both sources have it, and total_patents equals
\* total_families.
C35_MergedWithoutDuplicates ==
    pipe.pc = "returned" =>
        LET all_patents == pipe.response.all_patents
        IN  /\ \A i, j \in 1..Len(all_patents) :
                  i # j => all_patents[i].number # all_patents[j].number
            /\ { all_patents[i].number : i \in 1..Len(all_patents) }
                  = WoNumbersOf(pipe) \cup BrNumbersOf(pipe)
            /\ \A i \in 1..Len(all_patents) :
                  all_patents[i].number \in WoNumbersOf(pipe) => all_patents[i].type = "WO"
            /\ pipe.response.executive_summary.total_patents
                  = pipe.response.executive_summary.total_families

C35_Witness ==
    /\ pipe.pc = "returned"
    /\ Len(InpiPatentsOr(pipe.inpi_patents).br_patents) = 2
    /\ Len(pipe.response.wo_patents) = 2
    /\ pipe.response.executive_summary.total_patents = 3

-----------------------------------------------------------------------------
(* Extraction by the pipeline: claim checked under SpecPipeline *)

\* C34: the records _layer3_patent_details extracted come from the pool:
\* every one that is not a terminal failure is the record the pool's cache
\* holds for its identifier afterwards, so that a later run finds it there.
C34_FetchedThroughPool ==
    [][(pipe.pc = "gather" /\ pipe.patent_details = NotYet /\ pipe'.pc = "gather"
          /\ pipe'.patent_details # NotYet)
        => LET patents == PatentDetailsOr(pipe'.patent_details).patents
           IN  \A i \in 1..Len(patents) :
                 ~IsErrorRecord(patents[i]) =>
                    /\ patents[i].publicacao \in DOMAIN cache'
                    /\ cache'[patents[i].publicacao] = patents[i]]_vars

-----------------------------------------------------------------------------
(* Backoff and browser contexts of fetch_patent: claims checked under SpecCrawler *)

\* C36: the wait before the retry that follows failed attempt k (k = 0, 1, ...)
\* is 2^k seconds, doubling from one retry to the next, plus a jitter of at
\* least zero and less than one second; every wait follows a failed attempt
\* and is followed by another attempt, so none is taken after the last one.
C36_ExponentialBackoff ==
    /\ \A k \in 1..Len(waits) :
          /\ waits[k].base = 2 ^ (k - 1)
          /\ waits[k].jitter.from >= 0
          /\ waits[k].jitter.below <= 1
          /\ k \in Failures
    /\ \A k \in 2..Len(waits) : waits[k].base = 2 * waits[k - 1].base
    /\ outcome # <<>> => Len(waits) = Len(outcome) - 1

C36_Witness ==
    /\ pc = "done"
    /\ Len(waits) = 2
    /\ Len(outcome) = 3
    /\ 3 \in Failures
    /\ IsErrorRecord(result)

\* C38: once fetch_patent has returned, none of the browser contexts its
\* attempts created is open.
C38_NoContextLeftOpen == pc = "done" => contexts = 0

-----------------------------------------------------------------------------
(* The queries of discovery: claim checked under SpecQueries *)

QueriesExecuted == { plan.executed[k] : k \in 1..Len(plan.executed) }

\* C33: whatever development codes the molecular lookup returned, the
\* queries discovery executes are at most 20 and include the 14 per-year
\* queries, a query for each of the first 5 development codes, and the four
\* organization-name queries.
C33_QueriesWithinCapAndComplete ==
    plan.pc = "searching" =>
        /\ Len(plan.executed) <= 20
        /\ \A year \in QueryYears : YearQuery(plan.molecule, year) \in QueriesExecuted
        /\ \A i \in 1..Len(Limited(plan.dev_codes, 5)) :
              \E j \in 1..2 : DevCodeQueryPair(plan.dev_codes[i])[j] \in QueriesExecuted
        /\ \A k \in 1..4 : CompanyQueries(plan.molecule)[k] \in QueriesExecuted

-----------------------------------------------------------------------------
(* Permits of the two semaphores: claim checked under SpecPermits *)

MoleculeIs(i, where) ==
    batch.pc \in {"gather", "returned"} /\ i \in DOMAIN batch.one /\ batch.one[i].pc = where

CallOpen(m) == \E t \in Tasks : task[t].call = m

\* C40: every fetch_one and every process_one that waits for a permit
\* eventually holds it and completes, whether the guarded fetch or pipeline
\* returned or raised; every fetch_multiple call and every process_batch call
\* eventually returns, and when its tasks are all done every permit of its
\* semaphore is free.
C40_PermitsReleasedAndProgress ==
    /\ \A t \in Tasks : (task[t].pc = "queued") ~> (task[t].pc = "done")
    /\ \A m \in Calls : CallOpen(m) ~> ~CallOpen(m)
    /\ \A i \in 1..MaxMolecules : MoleculeIs(i, "queued") ~> MoleculeIs(i, "done")
    /\ (batch.pc = "gather") ~> (batch.pc = "returned")
    /\ [](\A m \in Calls :
            (CallOpen(m) /\ \A t \in Tasks : task[t].call = m => task[t].pc = "done")
               => sem[m] = SemaphoreInit)
    /\ [](batch.pc = "returned" => batch.sem = MaxConcurrent)

\* A batch of more molecules than permits has returned, a pipeline of it
\* having raised: every molecule waited for, got and gave back a permit.
C40_Witness ==
    /\ batch.pc = "returned"
    /\ Len(batch.one) > MaxConcurrent
    /\ \E i \in DOMAIN batch.one : batch.one[i].result.status = "error"
    /\ batch.sem = MaxConcurrent

====
